---- MODULE Spec2Model ----
(***************************************************************************)
(* BoltQ job-dispatch core: the Redis-backed task queue                    *)
(* (internal/queue/redis_queue.go, Task-based RedisQueue), the worker pool *)
(* (internal/worker/pool.go, WorkerPool.processNextTask), the error        *)
(* handler (internal/worker/error_handler.go) and the job endpoints of the *)
(* API (internal/api/handler.go).                                          *)
(*                                                                         *)
(* A Redis list is a sequence whose head is the left end: LPUSH prepends,  *)
(* RPOP removes the last element.  The sorted set delayed_tasks is a set   *)
(* of serialized tasks, the score of a member being the Unix time (whole   *)
(* seconds) of its scheduled_at.  The clock counts ticks of a fraction of a *)
(* second, as time.Time is finer than the second.  A                       *)
(* serialized task is the record of the fields of queue.Task that the code *)
(* reads or writes.                                                        *)
(***************************************************************************)
EXTENDS Integers, Sequences, FiniteSets, TLC

\* ---------------------------------------------------------------- bounds
MaxJobs == 2
NumWorkers == 2
MaxNow == 2
MaxDelay == 1
MaxFaults == 1
MaxSteps == 4
MaxRequestSteps == 3
MaxJobAttempts == 2
NumPromoters == 2
MaxBackoffAttempts == 25
MaxStrings == 5
PriorityMargin == 1

\* ------------------------------------------------------------- constants
PriorityLow == 0
PriorityNormal == 1
PriorityHigh == 2

Nil == -1

\* the clock's ticks in one second, and time.Time.Unix: the whole seconds
TicksPerSecond == 2
Unix(t) == t \div TicksPerSecond
Seconds(n) == n * TicksPerSecond

JobIds == 1..MaxJobs
\* the ids of the tasks of workflow steps (the step's id), and every task id
StepJobIds == (MaxJobs + 1)..(MaxJobs + MaxSteps)
TaskIds == JobIds \cup StepJobIds
Workers == 1..NumWorkers
\* the worker processes of the deployment: each runs ProcessDelayedTasks every 5 s
Promoters == 1..NumPromoters
\* the priorities a submission carries (SubmitJobRequest.Priority)
Priorities == {0, 1, 2}
TransientError == "transient"
DataError == "data"
SystemError == "system"
UnknownError == "unknown"
ErrorCategories == {TransientError, DataError, SystemError, UnknownError}

\* job types: one registered processor per error category, whose errors (when
\* it fails) categorizeError puts in that category; "nope" has no processor
\* the statuses of queue.go
JobStatuses == {"pending", "running", "completed", "failed", "retrying", "cancelled"}

Registered == ErrorCategories
JobTypes == Registered \cup {"nope"}

VARIABLES
  lane,       \* lane[p]: the list task_queue:p
  delayed,    \* the sorted set delayed_tasks
  dlq,        \* the list dead_letter_queue
  status,     \* status[j]: the value of key task:j, or NoRecord
  worker,     \* worker[w]: position of worker loop w and the task it holds
  promo,      \* promo[pr]: the due tasks that ProcessDelayedTasks of process pr has still to move
  now,        \* the clock, in seconds
  nextId,     \* the next job id SubmitJobHandler generates
  faults,     \* number of broker calls that have failed so far
  runs,       \* runs[j]: number of times a processor was invoked for job j
  fails,      \* fails[j]: number of times HandleJobError was called for job j
  pushOrder,  \* pushOrder[p]: the bodies on lane p, oldest push first
  lastNil,    \* what the most recent call of Consume that returned "no task" left waiting
  lastPop,    \* the most recent RPOP that returned a task
  cancel,     \* the cancel request in progress: the task it read, until it writes
  cancelledEarly, \* the jobs whose cancelled status was stored before they were due
  wf,             \* the workflow record under workflow:{id}
  workflowQueue,  \* the list workflow_queue of workflow ids
  pool,           \* the WorkerPool: its context, the loops that returned, the call of Stop
  jobQueue,       \* the lists boltq:queue:*, the keys boltq:status:* and the jobs consumers hold
  chanPool        \* the channel-based WorkerPool, its goroutines and its list task_queue

vars == <<lane, delayed, dlq, status, worker, promo, now, nextId, faults,
          runs, fails, pushOrder, lastNil, lastPop, cancel, cancelledEarly, wf, workflowQueue, pool, jobQueue, chanPool>>

NoRecord == [id |-> 0]
NoTask == [id |-> 0]
NoCall == [called |-> FALSE, any |-> FALSE, hi |-> FALSE]
NoPop == [depth |-> 0, oldest |-> TRUE]
NoCancel == [pc |-> "idle", task |-> NoTask]
NoWorkflow == [status |-> "none"]
\* NewMetricsCollector: the int32 activeWorkersCount, the gauge ActiveWorkers
\* and, per worker loop, where its call of IncrementActiveWorkers stands
\* ("none": not counted, "set": added, gauge not yet set, "counted")
NewMetricsCollector ==
  [activeWorkersCount |-> 0, ActiveWorkers |-> 0,
   call |-> [w \in Workers |-> [pc |-> "none", delta |-> 0, newCount |-> 0]]]

\* the processors: the function a worker process registers for its job types,
\* and another one
NoProcessor == "none"
Processors == {"main", "other"}

\* the pool after NewWorkerPool, the registrations of the worker process and
\* Start: context live, every loop running
\* (returned: the tasks for which a processor returned a result)
NewWorkerPool ==
  [ctx |-> "live", exited |-> {}, stop |-> "no", returned |-> {},
   metrics |-> NewMetricsCollector,
   processors |-> [t \in JobTypes |-> IF t \in Registered THEN "main" ELSE NoProcessor],
   started |-> TRUE]
\* The channel-based WorkerPool after NewWorkerPool and Start, with the list
\* task_queue it fetches from: the fetcher and the workers at the top of their
\* loops, jobChan empty and open (closes counts the calls of close(jobChan)),
\* context live, Shutdown not called.  A job string is its job's id.
NoString == 0
NewChannelPool ==
  [taskQueue |-> <<>>, published |-> 0,
   fetcher |-> [pc |-> "select", taskStr |-> NoString],
   jobChan |-> <<>>, closes |-> 0,
   workers |-> [w \in Workers |-> [pc |-> "range", taskStr |-> NoString]],
   processed |-> <<>>, ctx |-> "live", shutdown |-> "no"]

\* the lists: boltq:queue:retry and boltq:queue:pending:<priority>
QueueNames == {"retry", "critical", "high", "normal", "low"}
JobPriorities == QueueNames \ {"retry"}
\* the queue after NewRedisQueue; last is the source of the latest job that
\* ConsumeJob returned and what the retry list held just before
NewRedisQueue ==
  [lists |-> [q \in QueueNames |-> <<>>],
   status |-> [j \in JobIds |-> "none"],
   held |-> {},
   last |-> [source |-> "", retry |-> FALSE, pending |-> FALSE]]

\* ------------------------------------------------------- list primitives
LPush(list, x) == <<x>> \o list
RPopValue(list) == list[Len(list)]
RPopRest(list) == SubSeq(list, 1, Len(list) - 1)

\* queue.Task as built by SubmitJobHandler.  Data is "map" for a map without
\* the key result, "map+result" for a map with it, "nil" for the nil map
NewTask(id, type, priority) ==
  [id |-> id, type |-> type, priority |-> priority, scheduled_at |-> 0,
   status |-> "pending", attempts |-> 0, last_error |-> "", data |-> "map"]

\* ------------------------------------------------------------ RedisQueue
\* publishToQueue with RPUSH in place of LPUSH
publishToQueueAtTail(lanes, task, priority) ==
  [lanes EXCEPT ![priority] = Append(@, task)]

\* publishToQueue: LPUSH of the serialized task onto the named list
publishToQueue(lanes, task, priority) ==
  [lanes EXCEPT ![priority] = LPush(@, task)]

\* Publish: status pending, then publishToQueue on the lane of the priority
Publish(lanes, task) ==
  publishToQueue(lanes, [task EXCEPT !.status = "pending"], task.priority)

\* PublishDelayed: the member that ZADD adds to delayed_tasks
PublishDelayed(task, delaySeconds) ==
  [task EXCEPT !.scheduled_at = now + Seconds(delaySeconds), !.status = "scheduled"]

\* UpdateStatus: SET task:<id> to the serialized task
UpdateStatus(st, task) == [st EXCEPT ![task.id] = task]

\* GetTaskStatus: the stored task, NoRecord standing for "task not found"
GetTaskStatus(id) == status[id]

TypeOK ==
  /\ now \in Nat
  /\ nextId \in 1..(MaxJobs + 1)
  /\ faults \in 0..MaxFaults
  /\ \A p \in Priorities : Len(lane[p]) = Len(pushOrder[p])

Init ==
  /\ lane = [p \in Priorities |-> <<>>]
  /\ delayed = {}
  /\ dlq = <<>>
  /\ status = [j \in TaskIds |-> NoRecord]
  /\ worker = [w \in Workers |-> [pc |-> "idle", task |-> NoTask]]
  /\ promo = [pr \in Promoters |-> <<>>]
  /\ now = 0
  /\ nextId = 1
  /\ faults = 0
  /\ runs = [j \in TaskIds |-> 0]
  /\ fails = [j \in TaskIds |-> 0]
  /\ pushOrder = [p \in Priorities |-> <<>>]
  /\ lastNil = NoCall
  /\ lastPop = NoPop
  /\ cancel = NoCancel
  /\ cancelledEarly = {}
  /\ wf = NoWorkflow
  /\ workflowQueue = <<>>
  /\ pool = NewWorkerPool
  /\ jobQueue = NewRedisQueue
  /\ chanPool = NewChannelPool

\* SubmitJobHandler: a fresh id, Data as the request has it (nil when the
\* request has no data), then PublishDelayed or Publish
SubmitJobData(type, priority, delaySeconds, data) ==
  /\ nextId <= MaxJobs
  /\ LET task == [NewTask(nextId, type, priority) EXCEPT !.data = data] IN
       IF delaySeconds > 0
         THEN /\ delayed' = delayed \cup {PublishDelayed(task, delaySeconds)}
              /\ UNCHANGED <<lane, pushOrder>>
         ELSE /\ lane' = Publish(lane, task)
              /\ pushOrder' = [pushOrder EXCEPT ![priority] = Append(@, [task EXCEPT !.status = "pending"])]
              /\ UNCHANGED delayed
  /\ nextId' = nextId + 1
  /\ UNCHANGED <<dlq, status, worker, promo, now, faults, runs, fails, lastNil, lastPop, cancel, cancelledEarly, wf, workflowQueue, pool, jobQueue, chanPool>>

\* SubmitJobHandler for a request with a data object
SubmitJob(type, priority, delaySeconds) ==
  SubmitJobData(type, priority, delaySeconds, "map")

\* ------------------------------------------------- ProcessDelayedTasks
\* the order of ZRANGEBYSCORE: by score, then by member (the id comes first)
ScoreLeq(a, b) ==
  \/ Unix(a.scheduled_at) < Unix(b.scheduled_at)
  \/ Unix(a.scheduled_at) = Unix(b.scheduled_at) /\ a.id < b.id
  \/ Unix(a.scheduled_at) = Unix(b.scheduled_at) /\ a.id = b.id /\ a.attempts <= b.attempts

RECURSIVE SortByScore(_)
SortByScore(S) ==
  IF S = {} THEN <<>>
  ELSE LET m == CHOOSE x \in S : \A y \in S : ScoreLeq(x, y)
       IN <<m>> \o SortByScore(S \ {m})

\* ZRANGEBYSCORE delayed_tasks 0 now
DueTasks ==
  SortByScore({t \in delayed : Unix(t.scheduled_at) >= 0 /\ Unix(t.scheduled_at) <= Unix(now)})

\* ProcessDelayedTasks, first part: read the due members
ProcessDelayedTasks(pr) ==
  /\ promo[pr] = <<>>
  /\ promo' = [promo EXCEPT ![pr] = DueTasks]
  /\ UNCHANGED <<lane, delayed, dlq, status, worker, now, nextId, faults,
                 runs, fails, pushOrder, lastNil, lastPop, cancel, cancelledEarly, wf, workflowQueue, pool, jobQueue, chanPool>>

\* ProcessDelayedTasks, one turn of the loop: status pending, publishToQueue,
\* then ZREM of the member as it was read; a failed ZREM is logged and skipped
ProcessDelayedStep(pr, zremOk) ==
  /\ promo[pr] # <<>>
  /\ LET taskJSON == Head(promo[pr])
         task == [taskJSON EXCEPT !.status = "pending"]
     IN /\ lane' = publishToQueue(lane, task, task.priority)
        /\ pushOrder' = [pushOrder EXCEPT ![task.priority] = Append(@, task)]
        /\ IF zremOk
             THEN /\ delayed' = delayed \ {taskJSON}
                  /\ faults' = faults
             ELSE /\ faults < MaxFaults
                  /\ faults' = faults + 1
                  /\ delayed' = delayed
  /\ promo' = [promo EXCEPT ![pr] = Tail(@)]
  /\ UNCHANGED <<dlq, status, worker, now, nextId, runs, fails, lastNil, lastPop, cancel, cancelledEarly, wf, workflowQueue, pool, jobQueue, chanPool>>

\* ---------------------------------------------------------- ErrorHandler
getMaxAttempts(category) ==
  CASE category = TransientError -> 5
    [] category = SystemError -> 10
    [] category = DataError -> 0
    [] OTHER -> 3

Min(a, b) == IF a < b THEN a ELSE b

\* MoveToDeadLetterQueue: the body that is LPUSHed onto dead_letter_queue
MoveToDeadLetterQueue(task, err) ==
  [task EXCEPT !.status = "failed", !.last_error = err]

\* RetryTask without the cap of 300 s
RetryTaskUncapped(task, err) ==
  LET t == [task EXCEPT !.attempts = @ + 1, !.status = "retrying", !.last_error = err]
  IN PublishDelayed(t, 2 ^ t.attempts)

\* RetryTask: attempts+1, status retrying, backoff 2^attempts capped at 300 s,
\* then PublishDelayed; the result is the member added to delayed_tasks
RetryTask(task, err) ==
  LET t == [task EXCEPT !.attempts = @ + 1, !.status = "retrying", !.last_error = err]
  IN PublishDelayed(t, Min(2 ^ t.attempts, 300))

\* retryWithSystemErrorBackoff: attempts+1, backoff 5*attempts capped at 120 s
retryWithSystemErrorBackoff(task, err) ==
  LET t == [task EXCEPT !.attempts = @ + 1, !.status = "retrying", !.last_error = err]
  IN PublishDelayed(t, Min(5 * t.attempts, 120))

\* the switch of HandleJobError with the data case handled as the default case
ErrorDecisionRetryingData(task, category) ==
  CASE category = SystemError ->
         IF task.attempts < getMaxAttempts(category) THEN "system_retry" ELSE "dead_letter"
    [] OTHER ->
         IF task.attempts < 3 THEN "retry" ELSE "dead_letter"

\* the switch of HandleJobError: which queue operation the category selects
ErrorDecision(task, category) ==
  CASE category = TransientError ->
         IF task.attempts < getMaxAttempts(category) THEN "retry" ELSE "dead_letter"
    [] category = DataError -> "dead_letter"
    [] category = SystemError ->
         IF task.attempts < getMaxAttempts(category) THEN "system_retry" ELSE "dead_letter"
    [] OTHER ->
         IF task.attempts < getMaxAttempts(category) THEN "retry" ELSE "dead_letter"

\* HandleJobError: the effect on delayed_tasks and dead_letter_queue
HandleJobError(task, category) ==
  LET decision == ErrorDecision(task, category) IN
  /\ delayed' = CASE decision = "retry" -> delayed \cup {RetryTask(task, category)}
                  [] decision = "system_retry" ->
                       delayed \cup {retryWithSystemErrorBackoff(task, category)}
                  [] OTHER -> delayed
  /\ dlq' = IF decision = "dead_letter"
              THEN LPush(dlq, MoveToDeadLetterQueue(task, category))
              ELSE dlq
  /\ fails' = [fails EXCEPT ![task.id] = @ + 1]

\* ------------------------------------------------------- the processors
\* RegisterProcessor: under the write lock, p.processors[jobType] = processor
RegisterProcessor(jobType, processor) ==
  /\ pool' = [pool EXCEPT !.processors[jobType] = processor]
  /\ UNCHANGED <<lane, delayed, dlq, status, worker, promo, now, nextId, faults, runs, fails,
                 pushOrder, lastNil, lastPop, cancel, cancelledEarly, wf, workflowQueue, jobQueue, chanPool>>

\* the lookup of processNextTask and HasProcessorFor, under the read lock
HasProcessorFor(jobType) == pool.processors[jobType] # NoProcessor

\* Start: the worker loops and the workflow processor are launched
Start ==
  /\ ~pool.started
  /\ pool' = [pool EXCEPT !.started = TRUE]
  /\ UNCHANGED <<lane, delayed, dlq, status, worker, promo, now, nextId, faults, runs, fails,
                 pushOrder, lastNil, lastPop, cancel, cancelledEarly, wf, workflowQueue, jobQueue, chanPool>>

\* --------------------------------------------------------------- Consume
\* the loop of Consume: priority runs from PriorityHigh upwards while it is
\* <= PriorityLow; the result is the first queue with an element, or Nil
RECURSIVE ConsumeFrom(_)
ConsumeFrom(priority) ==
  IF ~(priority <= PriorityLow) THEN Nil
  ELSE IF lane[priority] = <<>> THEN ConsumeFrom(priority + 1)
  ELSE priority

Consume == ConsumeFrom(PriorityHigh)

\* a call of Consume that returned redis.Nil: were tasks waiting, and was one
\* of them on task_queue:0
NilRecord ==
  [called |-> TRUE, any |-> \E q \in Priorities : lane[q] # <<>>, hi |-> lane[0] # <<>>]

\* an RPOP of queue p: how many bodies the list held (2 standing for "several")
\* and whether the body returned is the one pushed first
PopRecord(p) ==
  [depth |-> Min(Len(lane[p]), 2), oldest |-> RPopValue(lane[p]) = Head(pushOrder[p])]

\* the body of Consume's loop for queue p (RPOP, status running, UpdateStatus),
\* followed by processNextTask up to the call of the processor: a task whose
\* type has no processor goes to HandleJobError at once
ConsumeQueue(w, p) ==
  /\ worker[w].pc = "idle"
  /\ pool.ctx # "panic"
  /\ lane[p] # <<>>
  /\ LET task == [RPopValue(lane[p]) EXCEPT !.status = "running"] IN
       /\ lane' = [lane EXCEPT ![p] = RPopRest(@)]
       /\ pushOrder' = [pushOrder EXCEPT ![p] = Tail(@)]
       /\ status' = UpdateStatus(status, task)
       /\ lastPop' = PopRecord(p)
       /\ IF HasProcessorFor(task.type)
            THEN /\ worker' = [worker EXCEPT ![w] = [pc |-> "processing", task |-> task]]
                 /\ runs' = [runs EXCEPT ![task.id] = @ + 1]
                 /\ UNCHANGED <<delayed, dlq, fails>>
            ELSE /\ HandleJobError(task, UnknownError)
                 /\ UNCHANGED <<worker, runs>>
  /\ UNCHANGED <<promo, now, nextId, faults, lastNil, cancel, cancelledEarly, wf, workflowQueue, pool, jobQueue, chanPool>>

\* processNextTask: Consume; "no task" returns at once
processNextTask(w) ==
  /\ worker[w].pc = "idle"
  /\ pool.ctx # "panic"
  /\ IF Consume = Nil
       THEN /\ lastNil' = NilRecord
            /\ UNCHANGED <<lane, delayed, dlq, status, worker, promo, now, nextId,
                           faults, runs, fails, pushOrder, lastPop, cancel, cancelledEarly, wf, workflowQueue, pool, jobQueue, chanPool>>
       ELSE ConsumeQueue(w, Consume)

\* processNextTask, the processor returned a result (not nil) and no error:
\* status completed, task.Data["result"] = result, UpdateStatus.  The
\* assignment to an entry of a nil map panics: the goroutine, and with it the
\* process, ends there.
ProcessorReturns(w) ==
  /\ worker[w].pc = "processing"
  /\ pool.ctx # "panic"
  /\ IF worker[w].task.data = "nil"
       THEN /\ pool' = [pool EXCEPT !.ctx = "panic", !.returned = @ \cup {worker[w].task.id}]
            /\ UNCHANGED <<status, worker>>
       ELSE /\ status' = UpdateStatus(status, [worker[w].task EXCEPT !.status = "completed",
                                                                     !.data = "map+result"])
            /\ worker' = [worker EXCEPT ![w] = [pc |-> "idle", task |-> NoTask]]
            /\ pool' = [pool EXCEPT !.returned = @ \cup {worker[w].task.id}]
  /\ UNCHANGED <<lane, delayed, dlq, promo, now, nextId, faults, runs, fails,
                 pushOrder, lastNil, lastPop, cancel, cancelledEarly, wf, workflowQueue, jobQueue, chanPool>>

\* processNextTask, the processor returned an error of the given category
ProcessorFails(w) ==
  /\ worker[w].pc = "processing"
  /\ pool.ctx # "panic"
  /\ HandleJobError(worker[w].task, worker[w].task.type)
  /\ worker' = [worker EXCEPT ![w] = [pc |-> "idle", task |-> NoTask]]
  /\ UNCHANGED <<lane, status, promo, now, nextId, faults, runs, pushOrder, lastNil, lastPop, cancel, cancelledEarly, wf, workflowQueue, pool, jobQueue, chanPool>>

\* processNextTask, the processor returned an error and the queue command that
\* HandleJobError issues (ZADD of the retry, LPUSH onto dead_letter_queue)
\* fails: HandleJobError returns the error, which processNextTask drops
ProcessorFailsBrokerError(w) ==
  /\ worker[w].pc = "processing"
  /\ pool.ctx # "panic"
  /\ faults < MaxFaults
  /\ faults' = faults + 1
  /\ fails' = [fails EXCEPT ![worker[w].task.id] = @ + 1]
  /\ worker' = [worker EXCEPT ![w] = [pc |-> "idle", task |-> NoTask]]
  /\ UNCHANGED <<lane, delayed, dlq, status, promo, now, nextId, runs, pushOrder, lastNil,
                 lastPop, cancel, cancelledEarly, wf, workflowQueue, pool, jobQueue, chanPool>>

\* ------------------------------------- RedisQueue of job.Job (boltq:queue:*)
\* the keys ConsumeJob passes to BRPOP, in order
ConsumeKeys == <<"retry", "critical", "high", "normal", "low">>

\* BRPOP: the first of the keys whose list is not empty, or "" on timeout
RECURSIVE BRPop(_, _, _)
BRPop(lists, keys, i) ==
  IF i > Len(keys) THEN ""
  ELSE IF lists[keys[i]] # <<>> THEN keys[i]
  ELSE BRPop(lists, keys, i + 1)

\* PublishJob: LPUSH onto the list of the priority, status pending
PublishJob(priority) ==
  /\ nextId <= MaxJobs
  /\ LET j == [id |-> nextId, priority |-> priority, attempts |-> 0] IN
       jobQueue' = [jobQueue EXCEPT !.lists[priority] = LPush(@, j),
                                    !.status[j.id] = "pending"]
  /\ nextId' = nextId + 1
  /\ UNCHANGED <<lane, delayed, dlq, status, worker, promo, now, faults, runs, fails,
                 pushOrder, lastNil, lastPop, cancel, cancelledEarly, wf, workflowQueue, pool, chanPool>>

\* the consumer that asks for the keys in the given order
ConsumeJobFrom(keys) ==
  LET source == BRPop(jobQueue.lists, keys, 1) IN
  /\ source # ""
  /\ LET j == RPopValue(jobQueue.lists[source]) IN
       jobQueue' = [jobQueue EXCEPT
                      !.lists[source] = RPopRest(@),
                      !.status[j.id] = "running",
                      !.held = @ \cup {j},
                      !.last = [source |-> source,
                                retry |-> jobQueue.lists["retry"] # <<>>,
                                pending |-> \E q \in JobPriorities : jobQueue.lists[q] # <<>>]]
  /\ UNCHANGED <<lane, delayed, dlq, status, worker, promo, now, nextId, faults, runs, fails,
                 pushOrder, lastNil, lastPop, cancel, cancelledEarly, wf, workflowQueue, pool, chanPool>>

\* ConsumeJob with the retry list as the last key
ConsumeJobPendingFirst ==
  ConsumeJobFrom(<<"critical", "high", "normal", "low", "retry">>)

\* ConsumeJob: BRPOP over the retry list and then the lists of the priorities
\* from critical to low, status running; a timeout returns no job
ConsumeJob == ConsumeJobFrom(ConsumeKeys)

\* RetryJob for a job a consumer holds: attempts+1, LPUSH onto the retry
\* list, status retrying
RetryJob(j) ==
  /\ j \in jobQueue.held
  /\ j.attempts < MaxJobAttempts
  /\ jobQueue' = [jobQueue EXCEPT
                    !.lists["retry"] = LPush(@, [j EXCEPT !.attempts = @ + 1]),
                    !.status[j.id] = "retrying",
                    !.held = @ \ {j}]
  /\ UNCHANGED <<lane, delayed, dlq, status, worker, promo, now, nextId, faults, runs, fails,
                 pushOrder, lastNil, lastPop, cancel, cancelledEarly, wf, workflowQueue, pool, chanPool>>

\* ------------------------------------------------- WorkerPool.Start, Stop
\* the goroutine of startWorkflowProcessor, as a member of the wait group
WorkflowProcessor == 0
Loops == Workers \cup {WorkflowProcessor}

\* Stop: cancel the pool's context, then wg.Wait
Stop ==
  /\ pool.stop = "no"
  /\ pool' = [pool EXCEPT !.ctx = "done", !.stop = "waiting"]
  /\ UNCHANGED <<lane, delayed, dlq, status, worker, promo, now, nextId, faults, runs,
                 fails, pushOrder, lastNil, lastPop, cancel, cancelledEarly, wf, workflowQueue, jobQueue, chanPool>>

\* wg.Wait returns when every loop has called wg.Done
StopWaitReturns ==
  /\ pool.stop = "waiting"
  /\ pool.exited = Loops
  /\ pool' = [pool EXCEPT !.stop = "returned"]
  /\ UNCHANGED <<lane, delayed, dlq, status, worker, promo, now, nextId, faults, runs,
                 fails, pushOrder, lastNil, lastPop, cancel, cancelledEarly, wf, workflowQueue, jobQueue, chanPool>>

\* a loop returns: its deferred wg.Done
LoopReturns(l) ==
  /\ pool.ctx = "done"
  /\ l \notin pool.exited
  /\ pool' = [pool EXCEPT !.exited = @ \cup {l}]
  /\ UNCHANGED <<lane, delayed, dlq, status, worker, promo, now, nextId, faults, runs,
                 fails, pushOrder, lastNil, lastPop, cancel, cancelledEarly, wf, workflowQueue, jobQueue, chanPool>>

\* one round of startWorker's loop, the worker being between two tasks: the
\* select returns when the context is done, and otherwise runs processNextTask
\* (here the body of Consume's loop) up to the call of the processor
startWorker(w) ==
  /\ worker[w].pc = "idle"
  /\ IF pool.ctx = "done"
       THEN LoopReturns(w)
       ELSE \E p \in Priorities : ConsumeQueue(w, p)

\* startWorkflowProcessor's select when the context is done
startWorkflowProcessor == LoopReturns(WorkflowProcessor)

\* ------------------------------------------------------ CancelJobHandler
\* the statuses CancelJobHandler accepts
Cancellable == {"pending", "scheduled"}

\* CancelJobHandler without its status test
CancelJobUnchecked(id) ==
  /\ cancel.pc = "idle"
  /\ LET task == GetTaskStatus(id) IN
       IF task = NoRecord THEN UNCHANGED cancel
       ELSE cancel' = [pc |-> "write", task |-> task]
  /\ UNCHANGED <<lane, delayed, dlq, status, worker, promo, now, nextId, faults, runs,
                 fails, pushOrder, lastNil, lastPop, cancelledEarly, wf, workflowQueue, pool, jobQueue, chanPool>>

\* CancelJobHandler up to its answer or its write: GetTaskStatus, 404 for
\* "task not found", 400 for a status that is neither pending nor scheduled,
\* else the task it read is about to be stored with status cancelled
CancelJob(id) ==
  /\ cancel.pc = "idle"
  /\ LET task == GetTaskStatus(id) IN
       IF task = NoRecord THEN UNCHANGED cancel
       ELSE IF task.status \notin Cancellable THEN UNCHANGED cancel
       ELSE cancel' = [pc |-> "write", task |-> task]
  /\ UNCHANGED <<lane, delayed, dlq, status, worker, promo, now, nextId, faults, runs,
                 fails, pushOrder, lastNil, lastPop, cancelledEarly, wf, workflowQueue, pool, jobQueue, chanPool>>

\* CancelJobHandler, the rest: UpdateStatus of the task it read, answer 200
CancelWrite ==
  /\ cancel.pc = "write"
  /\ status' = UpdateStatus(status, [cancel.task EXCEPT !.status = "cancelled"])
  /\ cancel' = NoCancel
  /\ cancelledEarly' =
       IF \E t \in delayed : t.id = cancel.task.id /\ now < t.scheduled_at
         THEN cancelledEarly \cup {cancel.task.id}
         ELSE cancelledEarly
  /\ UNCHANGED <<lane, delayed, dlq, worker, promo, now, nextId, faults, runs,
                 fails, pushOrder, lastNil, lastPop, wf, workflowQueue, pool, jobQueue, chanPool>>

\* ----------------------------------------------------------------- clock
Tick ==
  /\ now < MaxNow
  /\ now' = now + 1
  /\ UNCHANGED <<lane, delayed, dlq, status, worker, promo, nextId, faults,
                 runs, fails, pushOrder, lastNil, lastPop, cancel, cancelledEarly, wf, workflowQueue, pool, jobQueue, chanPool>>

\* time passes until the next delayed task is due: the first tick of the
\* second that is its score
AdvanceToDue ==
  /\ \E t \in delayed : Unix(t.scheduled_at) > Unix(now)
  /\ now' = CHOOSE s \in {Seconds(Unix(t.scheduled_at)) : t \in delayed} :
              /\ s > now
              /\ \A t \in delayed :
                   Unix(t.scheduled_at) > Unix(now) => s <= Seconds(Unix(t.scheduled_at))
  /\ UNCHANGED <<lane, delayed, dlq, status, worker, promo, nextId, faults,
                 runs, fails, pushOrder, lastNil, lastPop, cancel, cancelledEarly, wf, workflowQueue, pool, jobQueue, chanPool>>

\* ------------------------------------------------------------- workflows
\* A workflow is the record [status, steps, deps]: steps[s] is the status of
\* step s and deps[s] its DependsOn.  StepOrder is the steps by ascending id.
StepIds == 1..MaxSteps

\* the workflows a client creates: a diamond, a fork, a chain, a pair, and a step
\* whose DependsOn names no step of the workflow
Graphs ==
  { (1 :> {}) @@ (2 :> {1}) @@ (3 :> {1}) @@ (4 :> {2, 3}),
    (1 :> {}) @@ (2 :> {1}) @@ (3 :> {1}),
    (1 :> {}) @@ (2 :> {1}) @@ (3 :> {2}),
    (1 :> {}) @@ (2 :> {}),
    (1 :> {}) @@ (2 :> {0}) }

\* NewWorkflow and AddStep for every step of the request
NewWorkflow(deps) ==
  [status |-> "pending", steps |-> [s \in DOMAIN deps |-> "pending"], deps |-> deps]

\* GetReadySteps without the test of the dependencies
GetReadyStepsAnyDeps(w) ==
  {s \in DOMAIN w.steps : w.steps[s] = "pending"}

\* GetReadySteps: the pending steps whose every dependency exists and is completed
GetReadySteps(w) ==
  {s \in DOMAIN w.steps :
     /\ w.steps[s] = "pending"
     /\ \A d \in w.deps[s] : d \in DOMAIN w.steps /\ w.steps[d] = "completed"}

\* skipDependentSteps that marks the direct dependents only
RECURSIVE skipDependentStepsDirect(_, _, _)
skipDependentStepsDirect(w, failedStepID, i) ==
  IF i > MaxSteps THEN w
  ELSE IF i \in DOMAIN w.steps /\ w.steps[i] = "pending" /\ failedStepID \in w.deps[i]
         THEN skipDependentStepsDirect([w EXCEPT !.steps[i] = "skipped"], failedStepID, i + 1)
         ELSE skipDependentStepsDirect(w, failedStepID, i + 1)

\* skipDependentSteps, from position i of StepOrder on: a pending step that
\* depends on the failed step is skipped, and so are the steps that depend on it
RECURSIVE skipDependentSteps(_, _, _)
skipDependentSteps(w, failedStepID, i) ==
  IF i > MaxSteps THEN w
  ELSE IF i \in DOMAIN w.steps /\ w.steps[i] = "pending" /\ failedStepID \in w.deps[i]
         THEN skipDependentSteps(
                skipDependentSteps([w EXCEPT !.steps[i] = "skipped"], i, 1),
                failedStepID, i + 1)
         ELSE skipDependentSteps(w, failedStepID, i + 1)

\* UpdateStepStatus: the step's status, then the switch on the new status
UpdateStepStatus(w, stepID, st) ==
  LET u == [w EXCEPT !.steps[stepID] = st] IN
    CASE st = "running" ->
           IF u.status = "pending" THEN [u EXCEPT !.status = "running"] ELSE u
      [] st = "completed" ->
           IF \A s \in DOMAIN u.steps : u.steps[s] \in {"completed", "skipped"}
             THEN [u EXCEPT !.status = "completed"] ELSE u
      [] st = "failed" ->
           skipDependentSteps([u EXCEPT !.status = "failed"], stepID, 1)
      [] OTHER -> u

\* SaveWorkflow's push: a workflow saved with status pending goes onto workflow_queue
SaveWorkflow(queue, w) ==
  IF w.status = "pending" THEN LPush(queue, 1) ELSE queue

\* the task processNextWorkflow creates for a step: the step's id and job type,
\* priority 1
StepTask(s) == NewTask(MaxJobs + s, DataError, 1)

\* one round of that loop with the Publish ahead of the SaveWorkflow
StartStepPublishFirst(acc, i, failing, unsaved) ==
  LET started == UpdateStepStatus(acc.w, i, "running")
      failed == UpdateStepStatus(started, i, "failed")
      lanes == Publish(acc.lanes, StepTask(i))
      order == [acc.order EXCEPT ![1] = Append(@, [StepTask(i) EXCEPT !.status = "pending"])]
  IN IF i \in failing THEN [acc EXCEPT !.w = failed, !.stored = failed]
     ELSE IF i \in unsaved THEN [acc EXCEPT !.w = started, !.lanes = lanes, !.order = order]
     ELSE [w |-> started, stored |-> started, lanes |-> lanes, order |-> order]

\* one round of the loop of processNextWorkflow over the ready steps: step
\* running in the loaded workflow, SaveWorkflow (a failure skips the step),
\* Publish; a Publish that fails marks the step failed and saves again.
\* acc.w is the workflow as loaded, acc.stored what workflow:<id> holds.
StartStep(acc, i, failing, unsaved) ==
  LET started == UpdateStepStatus(acc.w, i, "running")
      failed == UpdateStepStatus(started, i, "failed")
  IN IF i \in unsaved THEN [acc EXCEPT !.w = started]
     ELSE IF i \in failing THEN [acc EXCEPT !.w = failed, !.stored = failed]
     ELSE [w |-> started, stored |-> started,
           lanes |-> Publish(acc.lanes, StepTask(i)),
           order |-> [acc.order EXCEPT ![1] =
                        Append(@, [StepTask(i) EXCEPT !.status = "pending"])]]

\* the loop of processNextWorkflow over the ready steps, in StepOrder
RECURSIVE StartSteps(_, _, _, _, _)
StartSteps(acc, ready, failing, unsaved, i) ==
  IF i > MaxSteps THEN acc
  ELSE IF i \notin ready THEN StartSteps(acc, ready, failing, unsaved, i + 1)
  ELSE StartSteps(StartStep(acc, i, failing, unsaved), ready, failing, unsaved, i + 1)

\* processNextWorkflow when no step is ready: "complete" means no step is
\* pending; the workflow is finished when that holds or a step has failed
Finalize(w) ==
  LET allComplete == \A s \in DOMAIN w.steps : w.steps[s] # "pending"
      hasFailed == \E s \in DOMAIN w.steps : w.steps[s] = "failed"
  IN IF allComplete \/ hasFailed
       THEN [w EXCEPT !.status = IF hasFailed THEN "failed" ELSE "completed"]
       ELSE w

\* a workflow built with NewWorkflow and AddStep, whose DependsOn hold the ids
\* that AddStep returned for earlier steps, then SaveWorkflow
CreateWorkflow(deps) ==
  /\ wf = NoWorkflow
  /\ wf' = NewWorkflow(deps)
  /\ workflowQueue' = SaveWorkflow(workflowQueue, wf')
  /\ UNCHANGED <<lane, delayed, dlq, status, worker, promo, now, nextId, faults, runs,
                 fails, pushOrder, lastNil, lastPop, cancel, cancelledEarly, pool, jobQueue, chanPool>>

\* The body of POST /api/v1/workflows: req[k] is the depends_on of the k-th
\* step, the steps it names by their place in the request ("step-1" is the first).
Requests == UNION {[1..n -> SUBSET (1..n)] : n \in 1..MaxRequestSteps}

\* the name "step-k" as a value of DependsOn: AddStep keys the k-th step by a
\* fresh uuid (here k), which no name of a request equals
StepName(k) == 0 - k

\* CreateWorkflowHandler: NewWorkflow, AddStep for each step of the request
\* with its depends_on as given, SaveWorkflow
CreateWorkflowHandler(req) ==
  /\ wf = NoWorkflow
  /\ wf' = NewWorkflow([k \in DOMAIN req |-> {StepName(d) : d \in req[k]}])
  /\ workflowQueue' = SaveWorkflow(workflowQueue, wf')
  /\ UNCHANGED <<lane, delayed, dlq, status, worker, promo, now, nextId, faults, runs,
                 fails, pushOrder, lastNil, lastPop, cancel, cancelledEarly, pool, jobQueue, chanPool>>

\* the SaveWorkflow of the workflow's own status, as a member of unsaved
StatusSave == 0

\* processNextWorkflow: GetNextWorkflow, pending becomes running, then either
\* the finish of the workflow or the start of the ready steps.  The Publish of
\* the steps in failing returns an error; so does the SaveWorkflow of the
\* steps in unsaved and, with StatusSave in unsaved, the SaveWorkflow of the
\* workflow's status (after which processNextWorkflow returns).
processNextWorkflowFaults(failing, unsaved) ==
  /\ workflowQueue # <<>>
  /\ workflowQueue' = RPopRest(workflowQueue)
  /\ LET w == IF wf.status = "pending" THEN [wf EXCEPT !.status = "running"] ELSE wf
         readySteps == GetReadySteps(w)
     IN /\ failing \subseteq readySteps
        /\ unsaved \subseteq readySteps \cup {StatusSave}
        /\ failing \cap unsaved = {}
        /\ StatusSave \in unsaved => (wf.status = "pending" \/ readySteps = {})
        /\ faults + Cardinality(failing) + Cardinality(unsaved) <= MaxFaults
        /\ faults' = faults + Cardinality(failing) + Cardinality(unsaved)
        /\ IF StatusSave \in unsaved
             THEN UNCHANGED <<wf, lane, pushOrder>>
             ELSE IF readySteps = {}
               THEN /\ wf' = Finalize(w)
                    /\ UNCHANGED <<lane, pushOrder>>
               ELSE LET r == StartSteps([w |-> w, stored |-> w, lanes |-> lane,
                                         order |-> pushOrder],
                                        readySteps, failing, unsaved, 1)
                    IN /\ wf' = r.stored
                       /\ lane' = r.lanes
                       /\ pushOrder' = r.order
  /\ UNCHANGED <<delayed, dlq, status, worker, promo, now, nextId, runs, fails,
                 lastNil, lastPop, cancel, cancelledEarly, pool, jobQueue, chanPool>>

\* processNextWorkflow with every SaveWorkflow succeeding
processNextWorkflow(failing) == processNextWorkflowFaults(failing, {})

\* The report of a step's outcome: UpdateStepStatus with completed or failed
\* for a running step, SaveWorkflow, and the workflow id back on workflow_queue.
StepOutcome(stepID, st) ==
  /\ wf # NoWorkflow
  /\ stepID \in DOMAIN wf.steps
  /\ wf.steps[stepID] = "running"
  /\ wf' = UpdateStepStatus(wf, stepID, st)
  /\ workflowQueue' = LPush(workflowQueue, 1)
  /\ UNCHANGED <<lane, delayed, dlq, status, worker, promo, now, nextId, faults, runs,
                 fails, pushOrder, lastNil, lastPop, cancel, cancelledEarly, pool, jobQueue, chanPool>>

\* the requests the API receives
Submit(types, priorities, limit) ==
  \E type \in types, priority \in priorities, delaySeconds \in 0..MaxDelay :
    /\ nextId <= limit
    /\ SubmitJob(type, priority, delaySeconds)

\* what runs beside the workers: the promoter of one worker process, the
\* cancel endpoint, the clock
Background ==
  \/ ProcessDelayedTasks(1)
  \/ ProcessDelayedStep(1, TRUE)
  \/ \E id \in JobIds : CancelJob(id)
  \/ Tick
  \/ AdvanceToDue

\* the worker past the dequeue
Processing ==
  \/ \E w \in Workers, p \in Priorities : ConsumeQueue(w, p)
  \/ \E w \in Workers : ProcessorReturns(w)
  \/ \E w \in Workers : ProcessorFails(w)

\* The program: the API, the promoter, the clock and the worker loops.
Next ==
  \/ Submit(JobTypes, Priorities, MaxJobs)
  \/ Background
  \/ ProcessDelayedStep(1, FALSE)
  \/ \E w \in Workers : processNextTask(w)

Spec == Init /\ [][Next]_vars

\* The code behind the dequeue: the body of Consume's loop is applied to a
\* queue that holds a task (with the constants of queue.go the loop itself
\* visits no queue).  Jobs whose retry budget is short, no broker failure.
NextDelivered ==
  \/ Submit({DataError, UnknownError, "nope"}, Priorities, MaxJobs)
  \/ Background
  \/ Processing

SpecDelivered == Init /\ [][NextDelivered]_vars

\* As SpecDelivered, for one job of any type: the whole retry budget.
NextRetry ==
  \/ Submit(JobTypes, Priorities, 1)
  \/ Background
  \/ Processing

SpecRetry == Init /\ [][NextRetry]_vars

\* As SpecRetry, with a ZREM that fails: the body is delivered twice.
NextRedelivery ==
  \/ Submit({UnknownError}, Priorities, 1)
  \/ Background
  \/ ProcessDelayedStep(1, FALSE)
  \/ Processing

SpecRedelivery == Init /\ [][NextRedelivery]_vars

\* several jobs whose processors fail at most once: the traffic of two of the
\* lanes, enough for jobs to share a lane and to sit on different ones
NextLanes ==
  \/ Submit({DataError}, {PriorityLow, PriorityNormal}, MaxJobs)
  \/ Background
  \/ Processing

SpecLanes == Init /\ [][NextLanes]_vars

\* CancelJobHandler, Consume and ProcessDelayedTasks as functions of the
\* store they are handed: one task that was submitted, waiting on its queue
\* or in the delayed set, and under task:{id} either nothing or a record of
\* that task with any status but cancelled.  (Publish and PublishDelayed write no record
\* themselves, so the record stands for one that another writer of the key
\* left there.)
StoredStatuses == (JobStatuses \cup Cancellable) \ {"cancelled"}

InitCancel ==
  \E priority \in Priorities, delaySeconds \in 0..MaxDelay, st \in StoredStatuses \cup {"none"} :
    /\ now = 0
    /\ LET task == NewTask(1, DataError, priority)
           body == IF delaySeconds > 0 THEN PublishDelayed(task, delaySeconds)
                                       ELSE [task EXCEPT !.status = "pending"]
       IN /\ lane = [p \in Priorities |->
                      IF delaySeconds = 0 /\ p = priority THEN <<body>> ELSE <<>>]
          /\ pushOrder = lane
          /\ delayed = IF delaySeconds > 0 THEN {body} ELSE {}
          /\ status = [j \in TaskIds |->
                        IF j = 1 /\ st # "none" THEN [body EXCEPT !.status = st] ELSE NoRecord]
    /\ nextId = 2
    /\ dlq = <<>>
    /\ worker = [w \in Workers |-> [pc |-> "idle", task |-> NoTask]]
    /\ promo = [pr \in Promoters |-> <<>>]
    /\ faults = 0
    /\ runs = [j \in TaskIds |-> 0]
    /\ fails = [j \in TaskIds |-> 0]
    /\ lastNil = NoCall
    /\ lastPop = NoPop
    /\ cancel = NoCancel
    /\ cancelledEarly = {}
    /\ wf = NoWorkflow
    /\ workflowQueue = <<>>
    /\ pool = NewWorkerPool
    /\ jobQueue = NewRedisQueue
    /\ chanPool = NewChannelPool

NextCancel ==
  \/ Background
  \/ CancelWrite
  \/ Processing

SpecCancel == InitCancel /\ [][NextCancel]_vars

\* The workflow engine: the API creates a workflow, the workflow processor of
\* a worker process runs, and the outcome of each running step is reported.
NextWorkflow ==
  \/ \E deps \in Graphs : CreateWorkflow(deps)
  \/ \E failing \in SUBSET StepIds : processNextWorkflow(failing)
  \/ \E stepID \in StepIds, st \in {"completed", "failed"} : StepOutcome(stepID, st)

SpecWorkflow == Init /\ [][NextWorkflow]_vars

\* a client posts a workflow (the model follows one workflow)
SubmitWorkflow ==
  /\ wf = NoWorkflow
  /\ \E req \in Requests : CreateWorkflowHandler(req)

\* As SpecRetry for jobs on one queue, with a broker whose commands can fail
\* while HandleJobError runs.
NextBrokerFaults ==
  \/ Submit({UnknownError, DataError}, {PriorityNormal}, 1)
  \/ Background
  \/ Processing
  \/ \E w \in Workers : ProcessorFailsBrokerError(w)

SpecBrokerFaults == Init /\ [][NextBrokerFaults]_vars

\* The queue of job.Job: producers publish, consumers take jobs and hand some
\* of them back for a retry.
NextJobQueue ==
  \/ \E priority \in JobPriorities : PublishJob(priority)
  \/ ConsumeJob
  \/ \E j \in jobQueue.held : RetryJob(j)

SpecJobQueue == Init /\ [][NextJobQueue]_vars

\* Delayed jobs and the promoters of several worker processes; no broker call
\* fails.
NextPromoters ==
  \/ Submit({DataError}, {PriorityNormal}, MaxJobs)
  \/ \E pr \in Promoters : ProcessDelayedTasks(pr)
  \/ \E pr \in Promoters : ProcessDelayedStep(pr, TRUE)
  \/ Tick
  \/ AdvanceToDue

SpecPromoters == Init /\ [][NextPromoters]_vars

\* Jobs submitted with and without a data object, delivered and processed.
NextResult ==
  \/ \E data \in {"map", "nil"} :
       SubmitJobData(DataError, PriorityNormal, 0, data)
  \/ Tick
  \/ Processing

SpecResult == Init /\ [][NextResult]_vars

\* The pool from Start to Stop. A processor is any function: it returns a
\* result, returns an error, or has not returned yet.
NextStop ==
  \/ Submit({DataError}, {PriorityNormal}, MaxJobs)
  \/ \E w \in Workers : startWorker(w)
  \/ \E w \in Workers : ProcessorReturns(w)
  \/ \E w \in Workers : ProcessorFails(w)
  \/ startWorkflowProcessor
  \/ Stop
  \/ StopWaitReturns

SpecStop == Init /\ [][NextStop]_vars

\* every loop and wg.Wait keep running; nothing obliges a processor to return
FairStop ==
  /\ SpecStop
  /\ \A w \in Workers : WF_vars(startWorker(w))
  /\ WF_vars(startWorkflowProcessor)
  /\ WF_vars(StopWaitReturns)

\* The workflow engine behind the API: workflows arrive as requests.
NextSubmitWorkflow ==
  \/ SubmitWorkflow
  \/ \E failing \in SUBSET StepIds : processNextWorkflow(failing)
  \/ \E stepID \in StepIds, st \in {"completed", "failed"} : StepOutcome(stepID, st)

SpecSubmitWorkflow == Init /\ [][NextSubmitWorkflow]_vars

\* The workflow processor and the worker loops of a worker process, as src has
\* them: the tasks of the started steps are dequeued and processed (the body of
\* Consume's loop, as in SpecDelivered) while the clock runs;
\* nothing reports a step's outcome.
NextStepJobs ==
  \/ \E deps \in Graphs : CreateWorkflow(deps)
  \/ \E failing \in SUBSET StepIds : processNextWorkflow(failing)
  \/ Tick
  \/ Processing

SpecStepJobs == Init /\ [][NextStepJobs]_vars

\* the ticker of startWorkflowProcessor fires every 5 s and the worker loops
\* poll at the polling interval: both keep taking their steps
FairStepJobs ==
  /\ SpecStepJobs
  /\ WF_vars(\E failing \in SUBSET StepIds : processNextWorkflow(failing))
  /\ WF_vars(Processing)

\* The two backoff functions on their own: a job is in the hands of worker 1
\* after any number of earlier attempts and its processor fails with a
\* retryable category; the retry arm of HandleJobError's switch is applied
\* whatever getMaxAttempts says, so that both caps are within reach.
RetryCategories == {TransientError, SystemError, UnknownError}

InitBackoff ==
  \E category \in RetryCategories, attempts \in 0..MaxBackoffAttempts :
    /\ worker = [w \in Workers |->
                  IF w = 1
                    THEN [pc |-> "processing",
                          task |-> [NewTask(1, category, PriorityNormal)
                                      EXCEPT !.attempts = attempts, !.status = "processing"]]
                    ELSE [pc |-> "idle", task |-> NoTask]]
    /\ lane = [p \in Priorities |-> <<>>]
    /\ delayed = {}
    /\ dlq = <<>>
    /\ status = [j \in TaskIds |-> NoRecord]
    /\ promo = [pr \in Promoters |-> <<>>]
    /\ now = 0
    /\ nextId = 2
    /\ faults = 0
    /\ runs = [j \in TaskIds |-> 0]
    /\ fails = [j \in TaskIds |-> 0]
    /\ pushOrder = [p \in Priorities |-> <<>>]
    /\ lastNil = NoCall
    /\ lastPop = NoPop
    /\ cancel = NoCancel
    /\ cancelledEarly = {}
    /\ wf = NoWorkflow
    /\ workflowQueue = <<>>
    /\ pool = NewWorkerPool
    /\ jobQueue = NewRedisQueue
    /\ chanPool = NewChannelPool

\* the retry arms of HandleJobError's switch: RetryTask for transient and
\* unknown errors, retryWithSystemErrorBackoff for system errors
RetryArm(task, category) ==
  IF category = SystemError THEN retryWithSystemErrorBackoff(task, category)
                            ELSE RetryTask(task, category)

\* processNextTask, the processor failed and HandleJobError took a retry arm
ProcessorFailsRetried(w) ==
  /\ worker[w].pc = "processing"
  /\ delayed' = delayed \cup {RetryArm(worker[w].task, worker[w].task.type)}
  /\ fails' = [fails EXCEPT ![worker[w].task.id] = @ + 1]
  /\ worker' = [worker EXCEPT ![w] = [pc |-> "idle", task |-> NoTask]]
  /\ UNCHANGED <<lane, dlq, status, promo, now, nextId, faults, runs, pushOrder, lastNil,
                 lastPop, cancel, cancelledEarly, wf, workflowQueue, pool, jobQueue, chanPool>>

\* the retried job comes back: the clock reaches its scheduled_at, the
\* promoter moves it to its queue and worker w dequeues it
RetryDelivered(w) ==
  /\ worker[w].pc = "idle"
  /\ \E t \in delayed :
       /\ t.attempts <= MaxBackoffAttempts
       /\ now' = t.scheduled_at
       /\ delayed' = delayed \ {t}
       /\ worker' = [worker EXCEPT ![w] = [pc |-> "processing",
                                           task |-> [t EXCEPT !.status = "processing"]]]
       /\ runs' = [runs EXCEPT ![t.id] = @ + 1]
  /\ UNCHANGED <<lane, dlq, status, promo, nextId, faults, fails, pushOrder, lastNil,
                 lastPop, cancel, cancelledEarly, wf, workflowQueue, pool, jobQueue, chanPool>>

NextBackoff ==
  \/ \E w \in Workers : ProcessorFailsRetried(w)
  \/ \E w \in Workers : RetryDelivered(w)

SpecBackoff == InitBackoff /\ [][NextBackoff]_vars

\* ------------------------------------------------------- categorizeError
\* An error as categorizeError sees it: what errors.As / errors.Is find in its
\* chain, and which of the substrings that matter its message contains.
\*   plain          an error that is no net.Error and wraps no errno
\*   net_timeout    a net.Error whose Timeout() is true
\*   net_temporary  a net.Error whose Temporary() is true and Timeout() false
\*   ECONNREFUSED, ECONNRESET, ETIMEDOUT   a syscall.Errno (which is a
\*                  net.Error; its Timeout() is true for ETIMEDOUT only)
ErrorKinds == {"plain", "net_timeout", "net_temporary", "ECONNREFUSED", "ECONNRESET", "ETIMEDOUT"}

Fragments == {"temporary", "connection refused", "network timeout",
              "connection reset by peer", "validation failed", "invalid",
              "invalid parameter", "not found", "bad request"}

\* the messages: a message that contains "invalid parameter" contains "invalid"
Messages == {m \in SUBSET Fragments : "invalid parameter" \in m => "invalid" \in m}

Errors == [kind : ErrorKinds, msg : Messages]

\* strings.Contains(errMsg, fragment)
Contains(errMsg, fragment) == fragment \in errMsg

categorizeError(err) ==
  IF err.kind \in {"net_timeout", "ETIMEDOUT"} THEN TransientError
  ELSE IF err.kind \in {"ECONNREFUSED", "ECONNRESET"} THEN SystemError
  ELSE IF \/ Contains(err.msg, "connection refused")
          \/ Contains(err.msg, "network timeout")
          \/ Contains(err.msg, "connection reset by peer") THEN SystemError
  ELSE IF \/ Contains(err.msg, "validation failed")
          \/ Contains(err.msg, "invalid parameter")
          \/ Contains(err.msg, "not found")
          \/ Contains(err.msg, "bad request") THEN DataError
  ELSE UnknownError

\* The classifier on its own: worker 1 holds a job whose processor fails with
\* the error that stands in the job's type field.
InitClassifier ==
  \E err \in Errors :
    /\ worker = [w \in Workers |->
                  IF w = 1
                    THEN [pc |-> "processing",
                          task |-> [NewTask(1, err, PriorityNormal) EXCEPT !.status = "processing"]]
                    ELSE [pc |-> "idle", task |-> NoTask]]
    /\ lane = [p \in Priorities |-> <<>>]
    /\ delayed = {}
    /\ dlq = <<>>
    /\ status = [j \in TaskIds |-> NoRecord]
    /\ promo = [pr \in Promoters |-> <<>>]
    /\ now = 0
    /\ nextId = 2
    /\ faults = 0
    /\ runs = [j \in TaskIds |-> 0]
    /\ fails = [j \in TaskIds |-> 0]
    /\ pushOrder = [p \in Priorities |-> <<>>]
    /\ lastNil = NoCall
    /\ lastPop = NoPop
    /\ cancel = NoCancel
    /\ cancelledEarly = {}
    /\ wf = NoWorkflow
    /\ workflowQueue = <<>>
    /\ pool = NewWorkerPool
    /\ jobQueue = NewRedisQueue
    /\ chanPool = NewChannelPool

\* processNextTask, the processor returned its error: HandleJobError
\* categorizes it and acts on the category (kept in last_error)
ProcessorFailsClassified(w) ==
  /\ worker[w].pc = "processing"
  /\ HandleJobError(worker[w].task, categorizeError(worker[w].task.type))
  /\ worker' = [worker EXCEPT ![w] = [pc |-> "idle", task |-> NoTask]]
  /\ UNCHANGED <<lane, status, promo, now, nextId, faults, runs, pushOrder, lastNil, lastPop,
                 cancel, cancelledEarly, wf, workflowQueue, pool, jobQueue, chanPool>>

NextClassifier == \E w \in Workers : ProcessorFailsClassified(w)

SpecClassifier == InitClassifier /\ [][NextClassifier]_vars

\* ------------------------------------------------- IncrementActiveWorkers
\* IncrementActiveWorkers, its first statement: atomic.AddInt32 on the shared
\* counter; newCount is local to the call.  processNextTask calls it with 1
\* right after Consume returned a task and, deferred, with -1 when it returns.
IncrementActiveWorkers(w, delta) ==
  /\ \/ delta = 1 /\ worker[w].pc = "processing" /\ pool.metrics.call[w].pc = "none"
     \/ delta = 0 - 1 /\ worker[w].pc = "idle" /\ pool.metrics.call[w].pc = "counted"
  /\ LET newCount == pool.metrics.activeWorkersCount + delta IN
       pool' = [pool EXCEPT !.metrics.activeWorkersCount = newCount,
                            !.metrics.call[w] = [pc |-> "set", delta |-> delta,
                                                 newCount |-> newCount]]
  /\ UNCHANGED <<lane, delayed, dlq, status, worker, promo, now, nextId, faults, runs, fails,
                 pushOrder, lastNil, lastPop, cancel, cancelledEarly, wf, workflowQueue, jobQueue, chanPool>>

\* IncrementActiveWorkers, its second statement: ActiveWorkers.Set(newCount)
ActiveWorkersSet(w) ==
  /\ pool.metrics.call[w].pc = "set"
  /\ pool' = [pool EXCEPT !.metrics.ActiveWorkers = pool.metrics.call[w].newCount,
                          !.metrics.call[w].pc =
                             IF pool.metrics.call[w].delta = 1 THEN "counted" ELSE "none"]
  /\ UNCHANGED <<lane, delayed, dlq, status, worker, promo, now, nextId, faults, runs, fails,
                 pushOrder, lastNil, lastPop, cancel, cancelledEarly, wf, workflowQueue, jobQueue, chanPool>>

\* The worker loops of one process with the metrics calls of processNextTask
\* in their place: dequeue (the body of Consume's loop), count up, run the
\* processor, count down, and only then poll again.
NextMetrics ==
  \/ Submit({DataError}, {PriorityNormal}, MaxJobs)
  \/ \E w \in Workers : pool.metrics.call[w].pc = "none" /\ ConsumeQueue(w, PriorityNormal)
  \/ \E w \in Workers, delta \in {1, 0 - 1} : IncrementActiveWorkers(w, delta)
  \/ \E w \in Workers : ActiveWorkersSet(w)
  \/ \E w \in Workers : pool.metrics.call[w].pc = "counted" /\ ProcessorReturns(w)
  \/ \E w \in Workers : pool.metrics.call[w].pc = "counted" /\ ProcessorFails(w)
  \/ Tick
  \/ ProcessDelayedTasks(1)
  \/ ProcessDelayedStep(1, TRUE)

SpecMetrics == Init /\ [][NextMetrics]_vars

\* A pool from its construction: the embedding program registers processors
\* and calls Start; nothing in the pool ties RegisterProcessor to either side
\* of Start.  Once started, the worker loops dequeue and process.
InitRegister ==
  /\ pool = [NewWorkerPool EXCEPT !.processors = [t \in JobTypes |-> NoProcessor],
                                   !.started = FALSE]
  /\ lane = [p \in Priorities |-> <<>>]
  /\ delayed = {}
  /\ dlq = <<>>
  /\ status = [j \in TaskIds |-> NoRecord]
  /\ worker = [w \in Workers |-> [pc |-> "idle", task |-> NoTask]]
  /\ promo = [pr \in Promoters |-> <<>>]
  /\ now = 0
  /\ nextId = 1
  /\ faults = 0
  /\ runs = [j \in TaskIds |-> 0]
  /\ fails = [j \in TaskIds |-> 0]
  /\ pushOrder = [p \in Priorities |-> <<>>]
  /\ lastNil = NoCall
  /\ lastPop = NoPop
  /\ cancel = NoCancel
  /\ cancelledEarly = {}
  /\ wf = NoWorkflow
  /\ workflowQueue = <<>>
  /\ jobQueue = NewRedisQueue
  /\ chanPool = NewChannelPool

NextRegister ==
  \/ \E jobType \in {DataError, "nope"}, processor \in Processors :
       RegisterProcessor(jobType, processor)
  \/ Start
  \/ Submit({DataError, "nope"}, {PriorityNormal}, MaxJobs)
  \/ pool.started /\ \E w \in Workers : ConsumeQueue(w, PriorityNormal)
  \/ pool.started /\ \E w \in Workers : ProcessorReturns(w)
  \/ Tick
  \/ ProcessDelayedTasks(1)
  \/ ProcessDelayedStep(1, TRUE)

SpecRegister == InitRegister /\ [][NextRegister]_vars

\* ------------------------------------- Worker over queue.Queue (adapter)
\* the default max attempts of processJob
WorkerMaxAttempts == 3

\* RedisQueueAdapter.UpdateStatus: GetTaskStatus, set the status (and the last
\* error), RedisQueue.UpdateStatus
AdapterUpdateStatus(st, id, newStatus, err) ==
  UpdateStatus(st, [GetTaskStatus(id) EXCEPT !.status = newStatus, !.last_error = err])

\* processSingleJob up to the call of the processor: the adapter's Consume
\* (the body of the loop of RedisQueue.Consume for queue p: RPOP, status
\* running, UpdateStatus), then processJob's lookup of the processor
processSingleJob(w, p) ==
  /\ worker[w].pc = "idle"
  /\ lane[p] # <<>>
  /\ LET task == [RPopValue(lane[p]) EXCEPT !.status = "running"] IN
       /\ lane' = [lane EXCEPT ![p] = RPopRest(@)]
       /\ pushOrder' = [pushOrder EXCEPT ![p] = Tail(@)]
       /\ status' = UpdateStatus(status, task)
       /\ worker' = [worker EXCEPT ![w] = [pc |-> "processing", task |-> task]]
       /\ runs' = [runs EXCEPT ![task.id] = @ + 1]
  /\ UNCHANGED <<delayed, dlq, promo, now, nextId, faults, fails, lastNil, lastPop, cancel,
                 cancelledEarly, wf, workflowQueue, pool, jobQueue, chanPool>>

\* processJob, the processor returned an error: status retrying while the
\* job's attempts are below the limit, failed otherwise; then return
processJobFails(w) ==
  /\ worker[w].pc = "processing"
  /\ LET j == worker[w].task IN
       /\ status' = IF j.attempts < WorkerMaxAttempts
                       THEN AdapterUpdateStatus(status, j.id, "retrying", j.type)
                       ELSE AdapterUpdateStatus(status, j.id, "failed", j.type)
       /\ fails' = [fails EXCEPT ![j.id] = @ + 1]
  /\ worker' = [worker EXCEPT ![w] = [pc |-> "idle", task |-> NoTask]]
  /\ UNCHANGED <<lane, delayed, dlq, promo, now, nextId, faults, runs, pushOrder, lastNil,
                 lastPop, cancel, cancelledEarly, wf, workflowQueue, pool, jobQueue, chanPool>>

\* processJob, the processor returned nil: status completed
processJobCompletes(w) ==
  /\ worker[w].pc = "processing"
  /\ status' = AdapterUpdateStatus(status, worker[w].task.id, "completed", "")
  /\ worker' = [worker EXCEPT ![w] = [pc |-> "idle", task |-> NoTask]]
  /\ UNCHANGED <<lane, delayed, dlq, promo, now, nextId, faults, runs, fails, pushOrder,
                 lastNil, lastPop, cancel, cancelledEarly, wf, workflowQueue, pool, jobQueue, chanPool>>

\* Workers of this kind on the queue, with the API, the promoter and the clock.
NextWorker ==
  \/ Submit({TransientError}, {PriorityNormal}, MaxJobs)
  \/ ProcessDelayedTasks(1)
  \/ ProcessDelayedStep(1, TRUE)
  \/ Tick
  \/ \E w \in Workers, p \in Priorities : processSingleJob(w, p)
  \/ \E w \in Workers : processJobFails(w)
  \/ \E w \in Workers : processJobCompletes(w)

SpecWorker == Init /\ [][NextWorker]_vars

\* processLoop polls every 100 ms and the promoter's ticker keeps firing; a
\* processor is not obliged to fail or to succeed
FairWorker ==
  /\ SpecWorker
  /\ WF_vars(\E w \in Workers, p \in Priorities : processSingleJob(w, p))
  /\ WF_vars(\E w \in Workers : processJobFails(w) \/ processJobCompletes(w))
  /\ WF_vars(ProcessDelayedTasks(1))
  /\ WF_vars(ProcessDelayedStep(1, TRUE))

\* ------------------------------------------- priorities of the requests
\* The priority of a request is any int; getQueueName turns every int into a
\* list name task_queue:<priority>, and LPUSH creates the list.
RequestPriorities == (PriorityLow - PriorityMargin)..(PriorityHigh + PriorityMargin)

InitPriority ==
  /\ lane = [p \in RequestPriorities |-> <<>>]
  /\ pushOrder = [p \in RequestPriorities |-> <<>>]
  /\ delayed = {}
  /\ dlq = <<>>
  /\ status = [j \in TaskIds |-> NoRecord]
  /\ worker = [w \in Workers |-> [pc |-> "idle", task |-> NoTask]]
  /\ promo = [pr \in Promoters |-> <<>>]
  /\ now = 0
  /\ nextId = 1
  /\ faults = 0
  /\ runs = [j \in TaskIds |-> 0]
  /\ fails = [j \in TaskIds |-> 0]
  /\ lastNil = NoCall
  /\ lastPop = NoPop
  /\ cancel = NoCancel
  /\ cancelledEarly = {}
  /\ wf = NoWorkflow
  /\ workflowQueue = <<>>
  /\ pool = NewWorkerPool
  /\ jobQueue = NewRedisQueue
  /\ chanPool = NewChannelPool

\* The API taking any priority, the promoter, the clock, and the worker loops
\* dequeuing from the three lists Consume names (the body of its loop for
\* PriorityLow..PriorityHigh).
NextPriority ==
  \/ Submit({DataError}, RequestPriorities, MaxJobs)
  \/ ProcessDelayedTasks(1)
  \/ ProcessDelayedStep(1, TRUE)
  \/ Tick
  \/ \E w \in Workers, p \in Priorities : ConsumeQueue(w, p)
  \/ \E w \in Workers : ProcessorReturns(w)

SpecPriority == InitPriority /\ [][NextPriority]_vars

\* The workflow processor with a broker whose commands can fail, the outcome
\* of each step whose job was emitted being reported (which puts the workflow
\* back on workflow_queue, so that the processor meets it again).
Emitted(s) ==
  Cardinality({k \in 1..Len(pushOrder[1]) : pushOrder[1][k].id = MaxJobs + s})

NextScheduler ==
  \/ \E deps \in Graphs : CreateWorkflow(deps)
  \/ \E failing \in SUBSET StepIds, unsaved \in SUBSET (StepIds \cup {StatusSave}) :
       processNextWorkflowFaults(failing, unsaved)
  \/ \E stepID \in StepIds, st \in {"completed", "failed"} :
       Emitted(stepID) >= 1 /\ StepOutcome(stepID, st)

SpecScheduler == Init /\ [][NextScheduler]_vars

\* ------------------------------------------- the channel-based WorkerPool
\* what the actions of the channel-based pool leave alone
taskQueueVars ==
  <<lane, delayed, dlq, status, worker, promo, now, nextId, faults, runs, fails, pushOrder,
    lastNil, lastPop, cancel, cancelledEarly, wf, workflowQueue, pool, jobQueue>>

\* make(chan string, numWorkers*2)
JobChanCapacity == NumWorkers * 2

\* RedisQueue.Publish(task string) by a producer: LPUSH task_queue
PublishString ==
  /\ chanPool.published < MaxStrings
  /\ chanPool' = [chanPool EXCEPT !.published = @ + 1,
                                  !.taskQueue = LPush(@, chanPool.published + 1)]
  /\ UNCHANGED taskQueueVars

\* the caller cancels the context handed to Start
CancelContext ==
  /\ chanPool.ctx = "live"
  /\ chanPool' = [chanPool EXCEPT !.ctx = "done"]
  /\ UNCHANGED taskQueueVars

\* whether one of the two stop cases of fetchJobs' selects is ready
StopRequested(cp) == cp.ctx = "done" \/ cp.shutdown # "no"

\* fetchJobs, the outer select: a ready stop case closes jobChan and returns;
\* otherwise the default case pops a string (ConsumeRetry finds nothing, the
\* jobs of this pool's processors never fail; Consume is RPOP task_queue) and
\* goes on to the inner select, or finds nothing, sleeps and comes back
fetchJobsSelect ==
  /\ chanPool.fetcher.pc = "select"
  /\ IF StopRequested(chanPool)
       THEN chanPool' = [chanPool EXCEPT !.closes = @ + 1, !.fetcher.pc = "returned"]
       ELSE /\ chanPool.taskQueue # <<>>
            /\ chanPool' = [chanPool EXCEPT
                              !.taskQueue = RPopRest(@),
                              !.fetcher = [pc |-> "send", taskStr |-> RPopValue(chanPool.taskQueue)]]
  /\ UNCHANGED taskQueueVars

\* the stop cases of the inner select without the Publish
SendStoppedDropped(cp) ==
  [cp EXCEPT !.closes = @ + 1,
             !.fetcher = [pc |-> "returned", taskStr |-> NoString]]

\* the stop cases of the inner select: Publish the string that was popped
\* (LPUSH task_queue), close jobChan, return
SendStopped(cp) ==
  [cp EXCEPT !.taskQueue = LPush(@, cp.fetcher.taskStr),
             !.closes = @ + 1,
             !.fetcher = [pc |-> "returned", taskStr |-> NoString]]

\* fetchJobs, the inner select: the send when jobChan has room, a stop case
\* when one is ready; select picks any case that is ready
fetchJobsSend ==
  /\ chanPool.fetcher.pc = "send"
  /\ \/ /\ Len(chanPool.jobChan) < JobChanCapacity
        /\ chanPool' = [chanPool EXCEPT
                          !.jobChan = Append(@, chanPool.fetcher.taskStr),
                          !.fetcher = [pc |-> "select", taskStr |-> NoString]]
     \/ /\ StopRequested(chanPool)
        /\ chanPool' = SendStopped(chanPool)
  /\ UNCHANGED taskQueueVars

\* runWorker, "for taskStr := range wp.jobChan": the next string of the
\* channel, or the end of the loop once the channel is closed and empty
runWorkerReceive(w) ==
  /\ chanPool.workers[w].pc = "range"
  /\ IF chanPool.jobChan # <<>>
       THEN chanPool' = [chanPool EXCEPT
                          !.jobChan = Tail(@),
                          !.workers[w] = [pc |-> "processing", taskStr |-> Head(chanPool.jobChan)]]
       ELSE /\ chanPool.closes > 0
            /\ chanPool' = [chanPool EXCEPT !.workers[w].pc = "returned"]
  /\ UNCHANGED taskQueueVars

\* runWorker, the body of the loop: the job is parsed, saved as running,
\* processed by ProcessTask and saved as completed (processed: the strings
\* the workers have processed, in order)
runWorkerProcess(w) ==
  /\ chanPool.workers[w].pc = "processing"
  /\ chanPool' = [chanPool EXCEPT
                    !.processed = Append(@, chanPool.workers[w].taskStr),
                    !.workers[w] = [pc |-> "range", taskStr |-> NoString]]
  /\ UNCHANGED taskQueueVars

\* Shutdown: close(shutdownChan), then wg.Wait
Shutdown ==
  /\ chanPool.shutdown = "no"
  /\ chanPool' = [chanPool EXCEPT !.shutdown = "waiting"]
  /\ UNCHANGED taskQueueVars

\* wg.Wait returns when the fetcher and every worker have called wg.Done
ShutdownWaitReturns ==
  /\ chanPool.shutdown = "waiting"
  /\ chanPool.fetcher.pc = "returned"
  /\ \A w \in Workers : chanPool.workers[w].pc = "returned"
  /\ chanPool' = [chanPool EXCEPT !.shutdown = "returned"]
  /\ UNCHANGED taskQueueVars

NextChannelPool ==
  \/ PublishString
  \/ CancelContext
  \/ fetchJobsSelect
  \/ fetchJobsSend
  \/ \E w \in Workers : runWorkerReceive(w)
  \/ \E w \in Workers : runWorkerProcess(w)
  \/ Shutdown
  \/ ShutdownWaitReturns

SpecChannelPool == Init /\ [][NextChannelPool]_vars

\* ----------------------------------------- skipDependentSteps, call by call
\* skipDependentSteps run one loop iteration at a time on a workflow whose
\* steps hold any status and whose DependsOn may form a cycle or name a step
\* the workflow does not have.  wf carries the call stack in field stack, one
\* frame [failedStepID, i] per active call with i the position in StepOrder,
\* and in fields entry and failedStepID the step statuses and the argument of
\* the outermost call.
StepStatuses == {"pending", "running", "completed", "failed", "skipped"}

\* workflows with a cycle of two steps, a cycle of three, a step that depends
\* on itself, and a cycle below a root with a dependency on an unknown id
CyclicGraphs ==
  { (1 :> {2}) @@ (2 :> {1}),
    (1 :> {3}) @@ (2 :> {1}) @@ (3 :> {2}),
    (1 :> {1}) @@ (2 :> {0, 1}),
    (1 :> {}) @@ (2 :> {1, 3}) @@ (3 :> {2}) @@ (4 :> {0, 3}) }

\* the call w.skipDependentSteps(failedStepID) on entry
skipDependentStepsCall(deps, steps, failedStepID) ==
  [status |-> "failed", steps |-> steps, deps |-> deps,
   stack |-> <<[failedStepID |-> failedStepID, i |-> 1]>>, entry |-> steps,
   failedStepID |-> failedStepID]

InitSkip ==
  /\ \E deps \in Graphs \cup CyclicGraphs :
       \E steps \in [DOMAIN deps -> StepStatuses], failedStepID \in {0} \cup DOMAIN deps :
         wf = skipDependentStepsCall(deps, steps, failedStepID)
  /\ lane = [p \in Priorities |-> <<>>]
  /\ delayed = {}
  /\ dlq = <<>>
  /\ status = [j \in TaskIds |-> NoRecord]
  /\ worker = [w \in Workers |-> [pc |-> "idle", task |-> NoTask]]
  /\ promo = [pr \in Promoters |-> <<>>]
  /\ now = 0
  /\ nextId = 1
  /\ faults = 0
  /\ runs = [j \in TaskIds |-> 0]
  /\ fails = [j \in TaskIds |-> 0]
  /\ pushOrder = [p \in Priorities |-> <<>>]
  /\ lastNil = NoCall
  /\ lastPop = NoPop
  /\ cancel = NoCancel
  /\ cancelledEarly = {}
  /\ workflowQueue = <<>>
  /\ pool = NewWorkerPool
  /\ jobQueue = NewRedisQueue
  /\ chanPool = NewChannelPool

\* the loop body that also skips a running step
skipDependentStepsBodyRunning(w) ==
  LET top == w.stack[Len(w.stack)]
      rest == SubSeq(w.stack, 1, Len(w.stack) - 1)
      next == [top EXCEPT !.i = top.i + 1] IN
    IF /\ top.i \in DOMAIN w.steps
       /\ w.steps[top.i] \in {"pending", "running"}
       /\ top.failedStepID \in w.deps[top.i]
      THEN [w EXCEPT !.steps[top.i] = "skipped",
                     !.stack = rest \o <<next, [failedStepID |-> top.i, i |-> 1]>>]
      ELSE [w EXCEPT !.stack = rest \o <<next>>]

\* one iteration of the loop over StepOrder in the innermost call: a step
\* that is not pending is passed over; a pending step with failedStepID among
\* its DependsOn becomes skipped and skipDependentSteps is called for it
skipDependentStepsBody(w) ==
  LET top == w.stack[Len(w.stack)]
      rest == SubSeq(w.stack, 1, Len(w.stack) - 1)
      next == [top EXCEPT !.i = top.i + 1] IN
    IF /\ top.i \in DOMAIN w.steps
       /\ w.steps[top.i] = "pending"
       /\ top.failedStepID \in w.deps[top.i]
      THEN [w EXCEPT !.steps[top.i] = "skipped",
                     !.stack = rest \o <<next, [failedStepID |-> top.i, i |-> 1]>>]
      ELSE [w EXCEPT !.stack = rest \o <<next>>]

skipDependentStepsIterate ==
  /\ wf.stack # <<>>
  /\ wf.stack[Len(wf.stack)].i <= MaxSteps
  /\ wf' = skipDependentStepsBody(wf)
  /\ UNCHANGED <<lane, delayed, dlq, status, worker, promo, now, nextId, faults,
                 runs, fails, pushOrder, lastNil, lastPop, cancel, cancelledEarly,
                 workflowQueue, pool, jobQueue, chanPool>>

\* the loop over StepOrder is over: the innermost call returns
skipDependentStepsReturn ==
  /\ wf.stack # <<>>
  /\ wf.stack[Len(wf.stack)].i > MaxSteps
  /\ wf' = [wf EXCEPT !.stack = SubSeq(wf.stack, 1, Len(wf.stack) - 1)]
  /\ UNCHANGED <<lane, delayed, dlq, status, worker, promo, now, nextId, faults,
                 runs, fails, pushOrder, lastNil, lastPop, cancel, cancelledEarly,
                 workflowQueue, pool, jobQueue, chanPool>>

NextSkip == skipDependentStepsIterate \/ skipDependentStepsReturn

SpecSkip == InitSkip /\ [][NextSkip]_vars

\* a call that has started runs on
FairSkip == SpecSkip /\ WF_vars(NextSkip)

\* ------------------------------------------------------------ the claims
\* the bodies of job j on the queues, in the delayed set and on the workers
OnLanes(j) ==
  {<<p, i>> \in Priorities \X (1..(2 * MaxJobs + MaxFaults + 1)) :
     i <= Len(lane[p]) /\ lane[p][i].id = j}
InDelayed(j) == {t \in delayed : t.id = j}
InFlight(j) == {w \in Workers : worker[w].pc = "processing" /\ worker[w].task.id = j}
OnDeadLetter(j) == {i \in 1..Len(dlq) : dlq[i].id = j}

Placements(j) ==
  Cardinality(OnLanes(j)) + Cardinality(InDelayed(j)) + Cardinality(InFlight(j))

TerminalStatuses == {"completed", "failed", "cancelled"}

\* C1: no two workers run the processor for the same job id at the same time.
NoConcurrentHandlers ==
  \A w1, w2 \in Workers :
    (w1 # w2 /\ worker[w1].pc = "processing" /\ worker[w2].pc = "processing")
      => worker[w1].task.id # worker[w2].task.id

\* C2: a submitted job whose stored status is not terminal is in exactly one
\* place: on a lane, in the delayed set or on a worker.
ExactlyOnePlacement ==
  \A j \in JobIds :
    (j < nextId /\ status[j] = NoRecord) \/
    (status[j] # NoRecord /\ status[j].status \notin TerminalStatuses)
      => Placements(j) = 1

\* C3: a call of Consume made while a priority-0 job waits returns a job (of
\* priority 0), never "no task".
HighServedFirst == ~(lastNil.called /\ lastNil.hi)

\* C4: within a lane the body that RPOP returns is the one pushed first.
FifoWithinLane == lastPop.oldest

\* C4 witness: a task was popped from a lane that held several bodies.
FifoWitness == lastPop.depth = 2 /\ lastPop.oldest

\* C5: Consume returns "no task" only when every lane is empty.
NilOnlyWhenEmpty == lastNil.called => ~lastNil.any

\* C6: a job on a lane or in the delayed set has a status record, whose
\* status is pending or retrying.
QueuedJobHasRecord ==
  \A j \in JobIds :
    (OnLanes(j) # {} \/ InDelayed(j) # {})
      => status[j] # NoRecord /\ status[j].status \in {"pending", "retrying"}

\* C7: the processor of a job that fails with category c is invoked at most
\* getMaxAttempts(c) times (transient 5, system 10, unknown 3).
RunsWithinMaxAttempts ==
  \A j \in JobIds :
    (status[j] # NoRecord /\ status[j].type \in {TransientError, SystemError, UnknownError})
      => runs[j] <= getMaxAttempts(status[j].type)

\* C8: after a data error the processor has run once, the body is on the
\* dead-letter list once with last_error set, and the job is on no lane, not
\* in the delayed set and on no worker.
DataErrorHandled(j) ==
  /\ status[j] # NoRecord
  /\ status[j].type = DataError
  /\ fails[j] >= 1

DataErrorNeverRetried ==
  \A j \in JobIds :
    DataErrorHandled(j) =>
      /\ runs[j] = 1
      /\ fails[j] = 1
      /\ Cardinality(OnDeadLetter(j)) = 1
      /\ \A i \in OnDeadLetter(j) : dlq[i].last_error # ""
      /\ Placements(j) = 0

\* C8 witness: a data error was handed to HandleJobError.
DataErrorWitness ==
  \E j \in JobIds : DataErrorHandled(j) /\ OnDeadLetter(j) # {}

\* C9: a job whose body is on the dead-letter list has stored status failed.
DeadLetteredIsFailed ==
  \A j \in JobIds :
    OnDeadLetter(j) # {} => status[j] # NoRecord /\ status[j].status = "failed"

\* C10: a job waiting for a retry has stored status retrying while it is in
\* the delayed set, and pending with scheduled_at set once it is back on a lane.
RetryingThenPending ==
  \A j \in JobIds :
    /\ (\E t \in InDelayed(j) : t.attempts > 0)
         => status[j] # NoRecord /\ status[j].status = "retrying"
    /\ (\E pi \in OnLanes(j) : lane[pi[1]][pi[2]].attempts > 0)
         => /\ status[j] # NoRecord
            /\ status[j].status = "pending"
            /\ status[j].scheduled_at > 0

\* every serialized copy of a task: on the queues, in the delayed set, on the
\* dead-letter list, and the stored records
AllCopies ==
  UNION {{lane[p][i] : i \in 1..Len(lane[p])} : p \in Priorities}
    \cup delayed
    \cup {dlq[i] : i \in 1..Len(dlq)}
    \cup {status[j] : j \in {k \in JobIds : status[k] # NoRecord}}

\* C11: the status of every stored record and of every serialized copy of a
\* job is one of pending, running, completed, failed, retrying, cancelled.
StatusEnumerated == \A t \in AllCopies : t.status \in JobStatuses

StoredAs(j, st) == status[j] # NoRecord /\ status[j].status = st

NotOnLaneBeforeDue ==
  \A p \in Priorities : \A i \in 1..Len(lane[p]) : lane[p][i].scheduled_at <= now

\* C17: a delayed task that the promoter has moved onto its queue can be
\* returned by Consume.
PromotedIsDequeueable ==
  (\E p \in Priorities : \E i \in 1..Len(lane[p]) : lane[p][i].scheduled_at > 0)
    => Consume # Nil

\* the steps that step s depends on, directly or through other steps
RECURSIVE TransitiveDeps(_, _, _)
TransitiveDeps(w, S, n) ==
  IF n = 0 THEN S
  ELSE TransitiveDeps(w,
         S \cup UNION {w.deps[d] : d \in S \cap DOMAIN w.steps}, n - 1)

AllDeps(w, s) == TransitiveDeps(w, w.deps[s], MaxSteps)

\* C18: a step is running only if every one of its dependencies is completed.
RunningHasCompletedDeps ==
  wf # NoWorkflow =>
    \A s \in DOMAIN wf.steps :
      wf.steps[s] = "running" =>
        \A d \in wf.deps[s] : d \in DOMAIN wf.steps /\ wf.steps[d] = "completed"

\* C18 witness: a step with dependencies is running.
RunningWithDepsWitness ==
  /\ wf # NoWorkflow
  /\ \E s \in DOMAIN wf.steps : wf.steps[s] = "running" /\ wf.deps[s] # {}

\* C19: a step is skipped if and only if one of the steps it depends on,
\* directly or through other steps, has failed.
SkippedIffDependencyFailed ==
  wf # NoWorkflow =>
    \A s \in DOMAIN wf.steps :
      wf.steps[s] = "skipped" <=>
        \E d \in AllDeps(wf, s) : d \in DOMAIN wf.steps /\ wf.steps[d] = "failed"

\* C19 witness: the diamond with A and C completed, B failed and D skipped.
DiamondWitness ==
  /\ wf # NoWorkflow
  /\ DOMAIN wf.steps = 1..4
  /\ wf.steps = (1 :> "completed") @@ (2 :> "failed") @@ (3 :> "completed") @@ (4 :> "skipped")
  /\ wf.status = "failed"

\* a step's task has finished: its record is completed, or it is dead-lettered
StepJobDone(s) ==
  \/ StoredAs(MaxJobs + s, "completed")
  \/ OnDeadLetter(MaxJobs + s) # {}

Finalized == wf # NoWorkflow /\ wf.status \in {"completed", "failed"}

\* C20: a workflow is completed if and only if every step is completed or
\* skipped and one is completed, and failed if and only if a step is failed.
WorkflowStatusMatchesSteps ==
  wf # NoWorkflow =>
    /\ wf.status = "completed" <=>
         /\ \A s \in DOMAIN wf.steps : wf.steps[s] \in {"completed", "skipped"}
         /\ \E s \in DOMAIN wf.steps : wf.steps[s] = "completed"
    /\ wf.status = "failed" <=> \E s \in DOMAIN wf.steps : wf.steps[s] = "failed"

\* C21: once the tasks of all of a workflow's steps have finished, the workflow
\* is eventually completed or failed.
WorkflowFinalizes ==
  (wf # NoWorkflow /\ \A s \in DOMAIN wf.steps : StepJobDone(s)) ~> Finalized

\* the steps that step s names in its DependsOn
NamedSteps(w, s) == {k \in DOMAIN w.steps : StepName(k) \in w.deps[s]}

\* the steps reached from the steps in S along n names
RECURSIVE NamedFrom(_, _, _)
NamedFrom(w, S, n) ==
  IF n = 0 THEN S
  ELSE NamedFrom(w, S \cup UNION {NamedSteps(w, k) : k \in S}, n - 1)

\* the dependencies of the request form a cycle
Cyclic(w) ==
  \E s \in DOMAIN w.steps : s \in NamedFrom(w, NamedSteps(w, s), MaxSteps)

\* C22: no workflow whose steps depend on each other in a cycle is stored or
\* put on workflow_queue.
CyclicRejected ==
  wf # NoWorkflow => ~Cyclic(wf)

\* C23: a call of Stop returns, whether or not the processors that are
\* running return.
StopTerminates ==
  (pool.stop = "waiting") ~> (pool.stop = "returned")

\* C24: a job whose processor returned a result has a status record with
\* status completed that holds the result.
CompletedCarriesResult ==
  \A j \in pool.returned :
    StoredAs(j, "completed") /\ status[j].data = "map+result"

\* C25: with several promoters, a job is never on the queues more than once.
PromotedOnce ==
  \A j \in JobIds : Cardinality(OnLanes(j)) <= 1

NoProcessorIsDataError ==
  \A j \in JobIds :
    (status[j] # NoRecord /\ status[j].type \notin Registered /\ fails[j] >= 1) =>
      /\ OnDeadLetter(j) # {}
      /\ InDelayed(j) = {}
      /\ fails[j] = 1

\* C28: a submitted job that has not completed is on a queue, in the delayed
\* set, held by a worker or on the dead-letter list.
JobNotLost ==
  \A j \in JobIds :
    (j < nextId /\ ~StoredAs(j, "completed")) =>
      Placements(j) + Cardinality(OnDeadLetter(j)) >= 1

\* C29: when the task of a workflow step has finished, the step eventually
\* has status completed or failed in the workflow.
StepOutcomePropagated ==
  \A s \in StepIds :
    (wf # NoWorkflow /\ s \in DOMAIN wf.steps /\ StepJobDone(s))
      ~> (wf # NoWorkflow /\ s \in DOMAIN wf.steps
            /\ wf.steps[s] \in {"completed", "failed"})

\* C30: every DependsOn of a stored workflow holds ids of steps of that
\* workflow, and a pending step is ready once the steps it names are completed.
DependsOnDenotesSteps ==
  wf # NoWorkflow =>
    \A s \in DOMAIN wf.steps :
      /\ wf.deps[s] \subseteq DOMAIN wf.steps
      /\ (wf.steps[s] = "pending"
            /\ \A k \in NamedSteps(wf, s) : wf.steps[k] = "completed")
           => s \in GetReadySteps(wf)

\* C31: the delay before the k-th retry of a job is min(2^k, 300) s for
\* transient and unknown errors and min(5k, 120) s for system errors; it never
\* exceeds its cap and is never shorter than the delay before the retry that
\* preceded it.
BackoffCap(category) == IF category = SystemError THEN 120 ELSE 300

BackoffSeconds(category, k) ==
  IF category = SystemError THEN Min(5 * k, 120) ELSE Min(2 ^ k, 300)

BackoffSchedule ==
  [][\A w \in Workers, t \in delayed' \ delayed :
       worker[w].pc = "processing" /\ worker[w].task.id = t.id =>
         LET job == worker[w].task
             delay == t.scheduled_at - now
             before == RetryArm([job EXCEPT !.attempts = @ - 1], job.type).scheduled_at - now
         IN /\ t.attempts = job.attempts + 1
            /\ delay = Seconds(BackoffSeconds(job.type, t.attempts))
            /\ delay <= Seconds(BackoffCap(job.type))
            /\ job.attempts >= 1 => before <= delay]_vars

\* two consecutive transient failures of a job: the first retry came 2 s after
\* the first failure, the second is scheduled 4 s after the second failure
BackoffScheduleWitness ==
  \E t \in delayed :
    /\ t.type = TransientError
    /\ fails[t.id] = 2
    /\ t.attempts = 2
    /\ now = Seconds(2)
    /\ t.scheduled_at = now + Seconds(4)

\* C32: the classifier follows the table: an error that is a network timeout
\* or is marked temporary (and triggers no other row) is transient, connection
\* refused / reset is system, a message containing "validation failed",
\* "invalid", "not found" or "bad request" is data, and an error that triggers
\* no row is unknown.
TransientTrigger(err) ==
  \/ err.kind \in {"net_timeout", "net_temporary", "ETIMEDOUT"}
  \/ err.msg \cap {"network timeout", "temporary"} # {}

SystemTrigger(err) ==
  \/ err.kind \in {"ECONNREFUSED", "ECONNRESET"}
  \/ err.msg \cap {"connection refused", "connection reset by peer"} # {}

DataTrigger(err) ==
  err.msg \cap {"validation failed", "invalid", "not found", "bad request"} # {}

TableCategory(err) ==
  CASE TransientTrigger(err) /\ ~SystemTrigger(err) /\ ~DataTrigger(err) -> {TransientError}
    [] SystemTrigger(err) /\ ~TransientTrigger(err) /\ ~DataTrigger(err) -> {SystemError}
    [] DataTrigger(err) /\ ~TransientTrigger(err) /\ ~SystemTrigger(err) -> {DataError}
    [] ~TransientTrigger(err) /\ ~SystemTrigger(err) /\ ~DataTrigger(err) -> {UnknownError}
    [] OTHER -> ErrorCategories

Classified == delayed \cup {dlq[i] : i \in 1..Len(dlq)}

ClassifierFollowsTable ==
  \A t \in Classified : t.last_error \in TableCategory(t.type)

\* C33: whenever no worker loop is inside a call of IncrementActiveWorkers,
\* the active-workers value equals the number of worker loops that hold a
\* dequeued job; so it is within 0..NumWorkers and 0 when all loops are idle.
ActiveLoops == {w \in Workers : worker[w].pc = "processing"}

MetricsQuiet ==
  \A w \in Workers :
    \/ worker[w].pc = "idle" /\ pool.metrics.call[w].pc = "none"
    \/ worker[w].pc = "processing" /\ pool.metrics.call[w].pc = "counted"

RegistrationFrozen ==
  [][pool.started => pool.processors' = pool.processors]_vars

\* C35: a job of the queue.Queue-based Worker whose first run failed and whose
\* status was set to retrying is eventually executed again.
RetryingRunsAgain ==
  \A j \in JobIds :
    (status[j] # NoRecord /\ status[j].status = "retrying" /\ runs[j] = 1) ~> (runs[j] >= 2)

\* C36: every accepted job is on a list that the dequeue reads: no job is ever
\* on a list other than those of priorities 0, 1 and 2.
AcceptedOnPolledLane ==
  \A p \in DOMAIN lane : lane[p] # <<>> => p \in Priorities

\* C37: the workflow processor emits at most one job for every step over the
\* life of the workflow, whichever of its broker commands fail.
StepEmittedOnce == \A s \in StepIds : Emitted(s) <= 1

\* a step and one of its dependencies both emitted (so the processor met the
\* workflow at least twice), a broker command having failed on the way
StepEmittedOnceWitness ==
  /\ wf # NoWorkflow
  /\ faults >= 1
  /\ \E s \in DOMAIN wf.steps : \E d \in wf.deps[s] : Emitted(s) = 1 /\ Emitted(d) = 1

\* C38: in the channel-based pool every string the fetcher popped is in
\* exactly one place at any time (the fetcher's hand, jobChan, one worker's
\* hand, the processed strings, or back on task_queue) and is processed at
\* most once; jobChan is closed at most once; and when Shutdown has returned
\* the fetcher and all workers have returned, jobChan has been closed and every
\* popped string has been processed or is back on the queue.
RECURSIVE Occurrences(_, _)
Occurrences(seq, x) ==
  IF seq = <<>> THEN 0
  ELSE (IF Head(seq) = x THEN 1 ELSE 0) + Occurrences(Tail(seq), x)

StringPlaces(x) ==
  Occurrences(chanPool.taskQueue, x) + Occurrences(chanPool.jobChan, x)
    + Occurrences(chanPool.processed, x)
    + (IF chanPool.fetcher.taskStr = x THEN 1 ELSE 0)
    + Cardinality({w \in Workers : chanPool.workers[w].taskStr = x})

WorkflowStatusAbsorbing ==
  [][wf.status \in {"completed", "failed"} => wf.status' = wf.status]_vars

\* C40: skipDependentSteps returns on every dependency graph, also one with a
\* cycle or with a dependency on an unknown step id, and the only change it
\* makes to a step is from pending to skipped.
SkipReturned == wf.stack = <<>>

PendingOnly ==
  \A st \in DOMAIN wf.steps :
    wf.steps[st] # wf.entry[st] => wf.entry[st] = "pending" /\ wf.steps[st] = "skipped"

\* the call by call run ends with the steps skipDependentSteps computes
SkipResult ==
  SkipReturned =>
    wf.steps = skipDependentSteps([wf EXCEPT !.steps = wf.entry], wf.failedStepID, 1).steps

SkipTerminatesPendingOnly == []PendingOnly /\ []SkipResult /\ <>SkipReturned

\* the call returned on the cycle of three steps, all pending on entry, with
\* every step skipped
SkipTerminatesPendingOnlyWitness ==
  /\ SkipReturned
  /\ wf.deps = (1 :> {3}) @@ (2 :> {1}) @@ (3 :> {2})
  /\ \A st \in DOMAIN wf.steps : wf.entry[st] = "pending" /\ wf.steps[st] = "skipped"

====
